---- MODULE Spec2Model ----
(***************************************************************************)
(* go-ratelimiter: the redis-backed Store (redisStore) over a model of the *)
(* backing store (hashes for buckets, sets for tags, both with expiry).    *)
(* Each Take is split at its round trips: the HMGet read, the local        *)
(* time.Now() of newBucket, and the write (HSet, or the TxPipeline batch). *)
(* Reset is split at SMembers and the TxPipeline batch.                    *)
(***************************************************************************)
EXTENDS Integers, Sequences, FiniteSets, TLC

\* ------------------------------------------------------------ bounds
\* cfg.Points of the store under test.
Points == 2
\* cfg.Interval of the store under test, in clock ticks.
Interval == 2
\* The clock stops ticking at MaxTime.
MaxTime == 2

\* The limiter keys the callers use, the concurrent Take callers, the Reset caller.
Keys == {"a", "b"}
\* The key the concurrent callers of Spec and SpecConc contend on.
HotKeys == {"a"}
Procs == {"p1", "p2"}
\* The caller of the runs that make one call at a time.
SeqProcs == {"p1"}
\* The callers of the batch of concurrent calls of SpecConc.
BatchProcs == {"p1", "p2", "p3"}
Resetters == {"r1"}
\* The tag lists a RedisConfig may ask for.
TagConfigs == {<< >>, <<"t1">>, <<"t1", "t2">>}

\* ------------------------------------------------------------ constants
redisActualPointsFieldName == "actual_points"
redisResetTimeFieldName == "reset_time"
redisMaxPointsFieldName == "max_points"
defaultRedisPrefix == "rate_limiter_redistore_"
defaultRedisTag == "goratelimit"
defaultRedisTagPrefix == "tags:"

\* ------------------------------------------------------------ strings of digits
\* A field value is a string: a sequence of characters, the digits 0..9 and
\* CharX, the letter x (any character that is no digit).
CharX == 10

RECURSIVE FormatUint(_)
\* strconv.FormatUint(n, 10): the decimal digits of n, no leading zero.
FormatUint(n) ==
    IF n < 10 THEN <<n>> ELSE FormatUint(n \div 10) \o <<n % 10>>

RECURSIVE ParseDigits(_, _, _)
\* The digit loop of strconv.ParseUint: acc is the value so far; a character
\* that is no digit of the base is a syntax error and the value is 0.
ParseDigits(s, base, acc) ==
    IF s = << >> THEN [val |-> acc, err |-> FALSE]
    ELSE IF Head(s) >= base \/ Head(s) = CharX THEN [val |-> 0, err |-> TRUE]
    ELSE ParseDigits(Tail(s), base, acc * base + Head(s))

\* strconv.ParseUint(s, 0, 64): base 0 takes the base from the prefix, a leading
\* "0" meaning octal ("0x" with at least one more character meaning hex).
ParseUint(s) ==
    IF s = << >> THEN [val |-> 0, err |-> TRUE]
    ELSE IF Head(s) = 0
         THEN IF Len(s) >= 3 /\ s[2] = CharX
              THEN ParseDigits(SubSeq(s, 3, Len(s)), 16, 0)
              ELSE ParseDigits(Tail(s), 8, 0)
         ELSE ParseDigits(s, 10, 0)

\* ------------------------------------------------------------ the backing store
\* A hash is a map from field names to strings; a key with no field does not
\* exist. exp is the absolute time the key expires at, NoExp for none.
NoExp == -1
NoHash == [f |-> << >>, exp |-> NoExp]
NoSet == [members |-> {}, exp |-> NoExp]

\* An interface{} value of an HMGet reply: nil, or a string.
NilVal == [isNil |-> TRUE, str |-> << >>]
StrVal(s) == [isNil |-> FALSE, str |-> s]

\* HMGET key f1 f2 f3: one value per field, nil for a field the hash lacks.
HMGetReply(h, fields) ==
    [i \in 1..Len(fields) |->
        IF fields[i] \in DOMAIN h.f THEN StrVal(h.f[fields[i]]) ELSE NilVal]

\* HSET key field value ...: sets the fields, keeps the key's expiry.
HSetHash(h, kv) ==
    [f |-> [n \in (DOMAIN h.f) \cup (DOMAIN kv) |->
                IF n \in DOMAIN kv THEN kv[n] ELSE h.f[n]],
     exp |-> h.exp]

\* SADD key member: creates the set when it does not exist.
SAddSet(st, member) == [members |-> st.members \cup {member}, exp |-> st.exp]

\* The keys the model's store can hold: bucket hashes and tag sets.
\* OtherPrefix is the RedisConfig.Prefix of the second store of SpecTwo.
OtherPrefix == "tenant_"
RedisKeys == {pre \o k : pre \in {defaultRedisPrefix, OtherPrefix}, k \in Keys}
TagKeys == {defaultRedisTagPrefix \o t : t \in {defaultRedisTag, "t1", "t2"}}

\* A key is there when its hash has a field / its set has a member.
HashExists(h) == DOMAIN h.f # {}
SetExists(st) == st.members # {}

\* One queued command applied to db = [h |-> hashes, s |-> sets] at time t.
\* EXPIRE of a key that does not exist does nothing; DEL removes whatever the
\* names hold.
ApplyCmd(db, c, t) ==
    CASE c.op = "SADD" ->
            [db EXCEPT !.s[c.key] = SAddSet(@, c.member)]
      [] c.op = "HSET" ->
            [db EXCEPT !.h[c.key] = HSetHash(@, c.kv)]
      [] c.op = "EXPIRE" ->
            [h |-> [k \in DOMAIN db.h |->
                      IF k = c.key /\ HashExists(db.h[k])
                      THEN [db.h[k] EXCEPT !.exp = t + c.ttl] ELSE db.h[k]],
             s |-> [k \in DOMAIN db.s |->
                      IF k = c.key /\ SetExists(db.s[k])
                      THEN [db.s[k] EXCEPT !.exp = t + c.ttl] ELSE db.s[k]]]
      [] c.op = "DEL" ->
            [h |-> [k \in DOMAIN db.h |-> IF k \in c.keys THEN NoHash ELSE db.h[k]],
             s |-> [k \in DOMAIN db.s |-> IF k \in c.keys THEN NoSet ELSE db.s[k]]]

RECURSIVE ApplyAll(_, _, _)
ApplyAll(db, cmds, t) ==
    IF cmds = << >> THEN db ELSE ApplyAll(ApplyCmd(db, Head(cmds), t), Tail(cmds), t)

\* A command the server refuses when it is queued: DEL with no key (wrong
\* number of arguments). The server then discards the whole transaction.
BadArity(c) == c.op = "DEL" /\ c.keys = {}

\* pipe.Exec of a TxPipeline: MULTI, the queued commands, EXEC; all of them or,
\* when one was refused at queue time, none (EXECABORT, returned as the error).
PipeExec(db, cmds, t) ==
    IF \E i \in 1..Len(cmds) : BadArity(cmds[i])
    THEN [db |-> db, err |-> TRUE]
    ELSE [db |-> ApplyAll(db, cmds, t), err |-> FALSE]

\* pipe.Process(ctx, pipe.X(...)): pipe.X queues the command and returns it,
\* pipe.Process queues it a second time.
Queued(c) == <<c, c>>

\* ------------------------------------------------------------ construction
Panic == [panicked |-> TRUE, prefix |-> "", tagPrefix |-> "", tags |-> << >>,
          interval |-> 0, maxPoints |-> 0]

\* tags[idx] = v on a Go slice: an index at or past len(tags) panics.
SetIndex(s, idx, v) ==
    IF idx + 1 \in 1..Len(s) THEN [ok |-> TRUE, s |-> [s EXCEPT ![idx + 1] = v]]
    ELSE [ok |-> FALSE, s |-> s]

RECURSIVE FillTags(_, _, _, _)
\* for idx, tag := range cfg.Tags { tags[idx] = tagPrefix + tag }
FillTags(tags, cfgTags, idx, tagPrefix) ==
    IF idx >= Len(cfgTags) THEN [ok |-> TRUE, s |-> tags]
    ELSE LET a == SetIndex(tags, idx, tagPrefix \o cfgTags[idx + 1])
         IN  IF a.ok THEN FillTags(a.s, cfgTags, idx + 1, tagPrefix) ELSE a

\* No default tag: the tag list of a configuration without tags stays empty.
noDefaultTag(tags, tagPrefix) == tags

\* tags = append(tags, tagPrefix + defaultRedisTag), for a configuration
\* without tags.
defaultTag(tags, tagPrefix) == Append(tags, tagPrefix \o defaultRedisTag)

\* NewRedisStore(instance, cfg): tags starts as make([]string, 0, len(cfg.Tags)),
\* a slice of length 0.
NewRedisStore(c) ==
    LET prefix == IF c.Prefix = "" THEN defaultRedisPrefix ELSE c.Prefix
        tagPrefix == IF c.TagsPrefix = "" THEN defaultRedisTagPrefix ELSE c.TagsPrefix
        made == << >>
        filled == IF Len(c.Tags) = 0
                  THEN [ok |-> TRUE, s |-> defaultTag(made, tagPrefix)]
                  ELSE FillTags(made, c.Tags, 0, tagPrefix)
    IN  IF filled.ok
        THEN [panicked |-> FALSE, prefix |-> prefix, tagPrefix |-> tagPrefix,
              tags |-> filled.s, interval |-> c.Interval, maxPoints |-> c.Points]
        ELSE Panic

\* ------------------------------------------------------------ take, after the read
Ret(limit, remaining, resetTime, ok, err) ==
    [next |-> "return", limit |-> limit, remaining |-> remaining,
     resetTime |-> resetTime, ok |-> ok, err |-> err, pre |-> remaining]

\* The test guarding each "parse uint" return: the code tests err, the HMGet
\* error that is nil by then, and not pErr, the error ParseUint returned.
parseFailed(err, pErr) == err

\* The decrement without its floor at zero: the test of a count that is
\* decremented whenever it is read (in uint64 the count then wraps).
hasPermitAlways(remaining) == remaining >= 0

\* if remaining > 0: the call takes a permit only when one is left.
hasPermit(remaining) == remaining > 0

\* redisStore.take from the HMGet reply on: vals is the reply, hmErr whether the
\* round trip failed. next is what the call does next: return, update (the
\* HSet of the decremented count) or newBucket. pre is the count of permits the
\* call found: the bucket's, or maxPoints when it found no bucket.
take(vals, hmErr, maxPoints) ==
    IF hmErr THEN Ret(0, 0, 0, FALSE, "HMGet")
    ELSE IF vals[1].isNil
    THEN [next |-> "newBucket", limit |-> 0, remaining |-> 0, resetTime |-> 0,
          ok |-> FALSE, err |-> "", pre |-> maxPoints]
    ELSE LET l == ParseUint(vals[1].str)
             a == ParseUint(vals[2].str)
             t == ParseUint(vals[3].str)
         IN  IF parseFailed(hmErr, l.err) THEN Ret(0, 0, 0, FALSE, "parse uint")
             ELSE IF vals[2].isNil THEN Ret(0, 0, 0, FALSE, "redis mismatch types")
             ELSE IF parseFailed(hmErr, a.err) THEN Ret(0, 0, 0, FALSE, "parse uint")
             ELSE IF vals[3].isNil THEN Ret(0, 0, 0, FALSE, "redis mismatch types")
             ELSE IF parseFailed(hmErr, t.err) THEN Ret(0, 0, 0, FALSE, "parse uint")
             ELSE IF hasPermit(a.val)
             THEN [next |-> "update", limit |-> l.val, remaining |-> a.val - 1,
                   resetTime |-> t.val, ok |-> TRUE, err |-> "", pre |-> a.val]
             ELSE Ret(l.val, a.val, t.val, FALSE, "")

\* redisStore.Take: an error of take is returned with every other result zero.
Take(res) ==
    IF res.err # "" THEN [res EXCEPT !.limit = 0, !.remaining = 0,
                                     !.resetTime = 0, !.ok = FALSE]
    ELSE res

\* ------------------------------------------------------------ state
VARIABLES
    cfg,       \* the RedisConfig the store was built from
    r,         \* the redisStore NewRedisStore returned (or the panic)
    now,       \* the clock
    hashes,    \* the backing store's hashes: the buckets
    sets,      \* the backing store's sets: the tag sets
    pc,        \* where each Take caller is
    loc,       \* each Take caller's key and locals while its call runs
    last,      \* what the Take call that returned in the last step returned
    rpc,       \* where each Reset caller is
    rloc,      \* each Reset caller's locals while its call runs
    rlast,     \* what the Reset call that returned in the last step returned
    admitted,  \* per bucket key: the Take calls that returned ok = true since
               \* the bucket that is there now was created (history; it stops
               \* counting at maxPoints + 1)
    batch,     \* SpecConc: the callers that have made their call, and the
               \* count the bucket held when the batch started (history)
    mw,        \* SpecWeb: what LimiterMiddleware captured: the store, the key
               \* function, the date format and the skipper
    resp,      \* SpecWeb: the response to the request served in the last step,
               \* with the calls the middleware made for it (history)
    api        \* SpecWeb: the Store method called directly in the last step,
               \* and how it ended

web == <<mw, resp, api>>
vars == <<cfg, r, now, hashes, sets, pc, loc, last, rpc, rloc, rlast, admitted, batch, web>>

AllProcs == Procs \cup BatchProcs

\* A call's locals and results, with what the properties need of its history:
\* path, how it ran (read: it returned from the decoding of the reply; dec:
\* through update; create: through newBucket); pre, the permits it found; at,
\* the time newBucket read; failed, a round trip of it failed; wrote, it
\* changed the backing store; corrupt, the bucket it read had max_points and a
\* missing or unparsable field.
NoCall == [key |-> "", path |-> "none", limit |-> 0, remaining |-> 0,
           resetTime |-> 0, ok |-> FALSE, err |-> "", pre |-> 0, at |-> 0,
           failed |-> FALSE, wrote |-> FALSE, corrupt |-> FALSE]
NoReset == [keys |-> {}]
NoResult == [err |-> "", returned |-> FALSE, failed |-> FALSE]
NoBatch == [called |-> {}, start |-> 0, key |-> ""]
NoOptions == [store |-> "none", keyFunc |-> "nil", dateFormat |-> "", skipper |-> "nil"]
NoDecision == [limit |-> 0, remaining |-> 0, resetTime |-> 0, ok |-> FALSE, err |-> ""]
NoRequest == [skip |-> FALSE, keyErr |-> FALSE, d |-> NoDecision, handler |-> 0]
NoResponse == [served |-> FALSE, status |-> 0, headers |-> << >>, next |-> 0,
               take |-> 0, key |-> 0, req |-> NoRequest, d |-> NoDecision]
NoApiCall == [store |-> "none", op |-> "none", panicked |-> FALSE, d |-> NoDecision,
              excl |-> FALSE]

\* No middleware was built and no Store method was called directly.
NoWeb == mw = NoOptions /\ resp = NoResponse /\ api = NoApiCall

Configs == [Tags : TagConfigs, TagsPrefix : {""}, Prefix : {""},
            Interval : {Interval}, Points : {Points}]

Init ==
    /\ cfg \in Configs
    /\ r = NewRedisStore(cfg)
    /\ now = 0
    /\ hashes = [k \in RedisKeys |-> NoHash]
    /\ sets = [k \in TagKeys |-> NoSet]
    /\ pc = [p \in AllProcs |-> "idle"]
    /\ loc = [p \in AllProcs |-> NoCall]
    /\ last = NoCall
    /\ rpc = [q \in Resetters |-> "idle"]
    /\ rloc = [q \in Resetters |-> NoReset]
    /\ rlast = NoResult
    /\ admitted = [k \in RedisKeys |-> 0]
    /\ batch = NoBatch
    /\ NoWeb

\* The bucket keys whose hash a step removed count no admitted call any more.
Forget(adm, h1, h2) ==
    [k \in DOMAIN adm |-> IF HashExists(h1[k]) /\ ~HashExists(h2[k]) THEN 0 ELSE adm[k]]

\* One more admitted call on key, counted up to maxPoints + 1.
Admit(adm, key, maxPoints) ==
    [adm EXCEPT ![key] = IF @ > maxPoints THEN @ ELSE @ + 1]

\* A Take call returns: the caller is idle again, last holds what it got.
Return(p, res, failed, wrote) ==
    LET out == Take(res)
    IN  /\ pc' = [pc EXCEPT ![p] = "idle"]
        /\ loc' = [loc EXCEPT ![p] = NoCall]
        /\ last' = [loc[p] EXCEPT !.limit = out.limit, !.remaining = out.remaining,
                                  !.resetTime = out.resetTime, !.ok = out.ok,
                                  !.err = out.err, !.failed = failed, !.wrote = wrote]

\* A Reset call returns.
ResetReturn(q, err, failed) ==
    /\ rpc' = [rpc EXCEPT ![q] = "idle"]
    /\ rloc' = [rloc EXCEPT ![q] = NoReset]
    /\ rlast' = [err |-> err, returned |-> TRUE, failed |-> failed]

BucketFields == <<redisMaxPointsFieldName, redisActualPointsFieldName,
                  redisResetTimeFieldName>>

\* Whether a reply that has max_points lacks a field or holds one that is no
\* unsigned integer (history: a corrupt bucket).
CorruptReply(vals) ==
    /\ ~vals[1].isNil
    /\ \E i \in 1..3 : vals[i].isNil \/ ParseUint(vals[i].str).err

\* Take(ctx, k), to the end of its first round trip: HMGet, then the decoding
\* of the reply, which ends the call or leaves a write to do.
takeHMGet(p, k, fail) ==
    /\ ~r.panicked
    /\ pc[p] = "idle"
    /\ LET prefixedKey == r.prefix \o k
           vals == HMGetReply(hashes[prefixedKey], BucketFields)
           d == take(vals, fail, r.maxPoints)
           call == [NoCall EXCEPT !.key = prefixedKey,
                                  !.path = IF d.next = "update" THEN "dec"
                                           ELSE IF d.next = "newBucket" THEN "create"
                                           ELSE "read",
                                  !.limit = d.limit, !.remaining = d.remaining,
                                  !.resetTime = d.resetTime, !.ok = d.ok,
                                  !.pre = d.pre,
                                  !.corrupt = ~fail /\ CorruptReply(vals)]
       IN  IF d.next = "return"
           THEN /\ pc' = pc
                /\ loc' = loc
                /\ last' = [call EXCEPT !.limit = Take(d).limit,
                                        !.remaining = Take(d).remaining,
                                        !.resetTime = Take(d).resetTime,
                                        !.ok = Take(d).ok, !.err = Take(d).err,
                                        !.failed = fail]
           ELSE /\ pc' = [pc EXCEPT ![p] = d.next]
                /\ loc' = [loc EXCEPT ![p] = call]
                /\ last' = NoCall
    /\ rlast' = NoResult
    /\ UNCHANGED <<cfg, r, now, hashes, sets, rpc, rloc, admitted, web>>

\* A Take call of a caller of Spec or SpecSeq starts.
HMGet(p, k, fail) == takeHMGet(p, k, fail) /\ UNCHANGED batch

\* newBucket, before its round trip: actual and resetTime are computed from
\* the caller's clock.
newBucket(p) ==
    /\ pc[p] = "newBucket"
    /\ pc' = [pc EXCEPT ![p] = "hset"]
    /\ loc' = [loc EXCEPT ![p].limit = r.maxPoints,
                          ![p].remaining = r.maxPoints,
                          ![p].resetTime = now + r.interval,
                          ![p].at = now]
    /\ last' = NoCall
    /\ rlast' = NoResult
    /\ UNCHANGED <<cfg, r, now, hashes, sets, rpc, rloc, admitted, batch, web>>

RECURSIVE TagCmds(_, _, _)
\* for _, tag := range r.tags { SAdd(tag, key); Expire(tag, expiration) }
TagCmds(tags, key, expiration) ==
    IF tags = << >> THEN << >>
    ELSE Queued([op |-> "SADD", key |-> Head(tags), member |-> key])
         \o Queued([op |-> "EXPIRE", key |-> Head(tags), ttl |-> expiration])
         \o TagCmds(Tail(tags), key, expiration)

\* The batch without the tag commands.
hsetCmdsUntagged(tags, key, fields, expiration) ==
    Queued([op |-> "HSET", key |-> key, kv |-> fields])
    \o Queued([op |-> "EXPIRE", key |-> key, ttl |-> expiration])

\* The batch redisStore.hset queues.
hsetCmds(tags, key, fields, expiration) ==
    TagCmds(tags, key, expiration)
    \o Queued([op |-> "HSET", key |-> key, kv |-> fields])
    \o Queued([op |-> "EXPIRE", key |-> key, ttl |-> expiration])

\* The fields newBucket writes.
newBucketFields(maxPoints, actual, resetTime) ==
    [max_points |-> FormatUint(maxPoints),
     actual_points |-> FormatUint(actual),
     reset_time |-> FormatUint(resetTime)]

\* newBucket returning the count less the permit the call takes.
newBucketResultLessOne(maxPoints, resetTime) ==
    Ret(maxPoints, maxPoints - 1, resetTime, TRUE, "")

\* What newBucket returns when hset succeeded.
newBucketResult(maxPoints, resetTime) ==
    Ret(maxPoints, maxPoints, resetTime, TRUE, "")

\* How a round trip that writes ends for the caller: ok, the backing store ran
\* the command and the reply arrived; refused, the command never ran (the
\* connection failed, ctx was done before the command was sent); lost, the
\* backing store ran the command and the caller got an error all the same (ctx
\* cancelled or timed out while it waited for the reply).
Outcomes == {"ok", "refused", "lost"}
Failed(o) == o # "ok"
Applied(o) == o # "refused"

\* newBucket's round trip: redisStore.hset executes the batch, and newBucket
\* returns (maxPoints, maxPoints, resetTime, true, nil).
hset(p, o) ==
    /\ pc[p] = "hset"
    /\ LET key == loc[p].key
           cmds == hsetCmds(r.tags, key,
                      newBucketFields(r.maxPoints, loc[p].remaining, loc[p].resetTime),
                      r.interval)
           x == PipeExec([h |-> hashes, s |-> sets], cmds, now)
       IN  IF ~Applied(o) \/ x.err
           THEN /\ Return(p, Ret(0, 0, 0, FALSE, "redis hmset"), Failed(o), FALSE)
                /\ UNCHANGED <<hashes, sets, admitted>>
           ELSE /\ hashes' = x.db.h
                /\ sets' = x.db.s
                /\ IF Failed(o)
                   THEN /\ admitted' = admitted
                        /\ Return(p, Ret(0, 0, 0, FALSE, "redis hmset"), TRUE, TRUE)
                   ELSE /\ admitted' = Admit(admitted, key, r.maxPoints)
                        /\ Return(p, newBucketResult(r.maxPoints, loc[p].resetTime),
                                  FALSE, TRUE)
    /\ rlast' = NoResult
    /\ UNCHANGED <<cfg, r, now, rpc, rloc, batch, web>>

\* The field redisStore.take hands to update: the decremented count.
updateFields(remaining) == [actual_points |-> FormatUint(remaining)]

\* take's second round trip when remaining > 0: redisStore.update, one HSet
\* of actual_points, then return (limit, remaining, resetTime, true, nil).
update(p, o) ==
    /\ pc[p] = "update"
    /\ LET key == loc[p].key
       IN  IF ~Applied(o)
           THEN /\ Return(p, Ret(0, 0, 0, TRUE, "redis hmset"), TRUE, FALSE)
                /\ UNCHANGED <<hashes, admitted>>
           ELSE /\ hashes' = [hashes EXCEPT ![key] =
                                HSetHash(@, updateFields(loc[p].remaining))]
                /\ IF Failed(o)
                   THEN /\ admitted' = admitted
                        /\ Return(p, Ret(0, 0, 0, TRUE, "redis hmset"), TRUE, TRUE)
                   ELSE /\ admitted' = Admit(admitted, key, r.maxPoints)
                        /\ Return(p, Ret(loc[p].limit, loc[p].remaining,
                                         loc[p].resetTime, TRUE, ""), FALSE, TRUE)
    /\ rlast' = NoResult
    /\ UNCHANGED <<cfg, r, now, sets, rpc, rloc, batch, web>>

\* Reset(ctx), to the end of its first round trip: the tags test, SMembers of
\* the first tag.
reset(q, fail) ==
    /\ ~r.panicked
    /\ rpc[q] = "idle"
    /\ IF Len(r.tags) = 0 THEN ResetReturn(q, "tags not set", FALSE)
       ELSE IF fail THEN ResetReturn(q, "redis smembers", TRUE)
       ELSE /\ rpc' = [rpc EXCEPT ![q] = "exec"]
            /\ rloc' = [rloc EXCEPT ![q] = [keys |-> sets[r.tags[1]].members]]
            /\ rlast' = NoResult
    /\ last' = NoCall
    /\ UNCHANGED <<cfg, r, now, hashes, sets, pc, loc, admitted, batch, web>>

\* The batch redisStore.reset queues: Del(keys...), Del(r.tags...).
resetCmds(keys, tags) ==
    Queued([op |-> "DEL", keys |-> keys])
    \o Queued([op |-> "DEL", keys |-> {tags[i] : i \in 1..Len(tags)}])

\* Reset's second round trip: pipe.Exec of the two deletes.
resetExec(q, o) ==
    /\ rpc[q] = "exec"
    /\ LET x == PipeExec([h |-> hashes, s |-> sets],
                         resetCmds(rloc[q].keys, r.tags), now)
       IN  IF ~Applied(o) \/ x.err
           THEN /\ ResetReturn(q, "redis pipeline exec", Failed(o))
                /\ UNCHANGED <<hashes, sets, admitted>>
           ELSE /\ IF Failed(o) THEN ResetReturn(q, "redis pipeline exec", TRUE)
                                ELSE ResetReturn(q, "", FALSE)
                /\ hashes' = x.db.h
                /\ sets' = x.db.s
                /\ admitted' = Forget(admitted, hashes, x.db.h)
    /\ last' = NoCall
    /\ UNCHANGED <<cfg, r, now, pc, loc, batch, web>>

\* The backing store drops a key once its expiry time is reached.
Expired(e, t) == e.exp # NoExp /\ e.exp <= t

\* Time passes: one tick of the clock, and the keys that expire with it.
Tick ==
    /\ now < MaxTime
    /\ now' = now + 1
    /\ hashes' = [k \in DOMAIN hashes |->
                    IF Expired(hashes[k], now + 1) THEN NoHash ELSE hashes[k]]
    /\ sets' = [k \in DOMAIN sets |->
                    IF Expired(sets[k], now + 1) THEN NoSet ELSE sets[k]]
    /\ admitted' = Forget(admitted, hashes, hashes')
    /\ last' = NoCall
    /\ rlast' = NoResult
    /\ UNCHANGED <<cfg, r, pc, loc, rpc, rloc, batch, web>>

\* Every caller is between calls.
AllQuiet ==
    /\ \A p \in AllProcs : pc[p] = "idle"
    /\ \A q \in Resetters : rpc[q] = "idle"

\* Any interleaving of the round trips of the callers of one key, of Reset and
\* of the clock; every round trip may fail, a write also after it ran.
Next ==
    \/ \E p \in Procs, k \in HotKeys, fail \in BOOLEAN : HMGet(p, k, fail)
    \/ \E p \in Procs : newBucket(p)
    \/ \E p \in Procs, o \in Outcomes : hset(p, o)
    \/ \E p \in Procs, o \in Outcomes : update(p, o)
    \/ \E q \in Resetters, fail \in BOOLEAN : reset(q, fail)
    \/ \E q \in Resetters, o \in Outcomes : resetExec(q, o)
    \/ Tick

Spec == Init /\ [][Next]_vars

\* One call at a time, on any key: a call starts only when no other call is
\* running. The clock still ticks between the round trips of a call.
NextSeq ==
    \/ \E p \in SeqProcs, k \in Keys, fail \in BOOLEAN : AllQuiet /\ HMGet(p, k, fail)
    \/ \E p \in SeqProcs : newBucket(p)
    \/ \E p \in SeqProcs, o \in Outcomes : hset(p, o)
    \/ \E p \in SeqProcs, o \in Outcomes : update(p, o)
    \/ \E q \in Resetters, fail \in BOOLEAN : AllQuiet /\ reset(q, fail)
    \/ \E q \in Resetters, o \in Outcomes : resetExec(q, o)
    \/ Tick

SpecSeq == Init /\ [][NextSeq]_vars

\* One Take caller on any key and one Reset caller, their round trips
\* interleaved in any order with each other and with the clock; the backing
\* store answers every round trip.
NextRace ==
    \/ \E p \in SeqProcs, k \in Keys : HMGet(p, k, FALSE)
    \/ \E p \in SeqProcs : newBucket(p)
    \/ \E p \in SeqProcs : hset(p, "ok")
    \/ \E p \in SeqProcs : update(p, "ok")
    \/ \E q \in Resetters : reset(q, FALSE)
    \/ \E q \in Resetters : resetExec(q, "ok")
    \/ Tick

SpecRace == Init /\ [][NextRace]_vars

\* Take calls only, one at a time on any key, and the clock: no Reset.
NextTakes ==
    \/ \E p \in SeqProcs, k \in Keys, fail \in BOOLEAN : HMGet(p, k, fail)
    \/ \E p \in SeqProcs : newBucket(p)
    \/ \E p \in SeqProcs, o \in Outcomes : hset(p, o)
    \/ \E p \in SeqProcs, o \in Outcomes : update(p, o)
    \/ Tick

SpecTakes == Init /\ [][NextTakes]_vars

\* ------------------------------------------------------------ a batch of concurrent calls
DefaultConfig == [Tags |-> << >>, TagsPrefix |-> "", Prefix |-> "",
                  Interval |-> Interval, Points |-> Points]

EmptyDb == [h |-> [k \in RedisKeys |-> NoHash], s |-> [k \in TagKeys |-> NoSet]]

\* The backing store after a Take created the bucket of key at time 0 and
\* later calls took its count down to remaining.
BucketAt(st, key, remaining) ==
    LET x == PipeExec(EmptyDb,
                 hsetCmds(st.tags, key,
                     newBucketFields(st.maxPoints, st.maxPoints, 0 + st.interval),
                     st.interval), 0)
    IN  [h |-> [x.db.h EXCEPT ![key] = HSetHash(@, updateFields(remaining))],
         s |-> x.db.s]

\* The key's bucket is there with R permits left, R less than the number of
\* callers; no call has started.
InitConc ==
    /\ cfg = DefaultConfig
    /\ r = NewRedisStore(cfg)
    /\ now = 0
    /\ \E k \in Keys, R \in 0..Points :
         /\ R < Cardinality(BatchProcs)
         /\ hashes = BucketAt(r, r.prefix \o k, R).h
         /\ sets = BucketAt(r, r.prefix \o k, R).s
         /\ batch = [called |-> {}, start |-> R, key |-> k]
    /\ NoWeb
    /\ pc = [p \in AllProcs |-> "idle"]
    /\ loc = [p \in AllProcs |-> NoCall]
    /\ last = NoCall
    /\ rpc = [q \in Resetters |-> "idle"]
    /\ rloc = [q \in Resetters |-> NoReset]
    /\ rlast = NoResult
    /\ admitted = [k \in RedisKeys |-> 0]

\* A caller of the batch makes its one call.
batchTake(p) ==
    /\ p \notin batch.called
    /\ takeHMGet(p, batch.key, FALSE)
    /\ batch' = [batch EXCEPT !.called = @ \cup {p}]

\* Every caller makes one Take on the key, the round trips interleaved in any
\* order; the backing store answers every round trip and nothing expires.
NextConc ==
    \/ \E p \in BatchProcs : batchTake(p)
    \/ \E p \in BatchProcs : update(p, "ok")

SpecConc == InitConc /\ [][NextConc]_vars

\* ------------------------------------------------------------ a bucket another client wrote
\* The strings another client may have left in a field: the decimal counts,
\* "x", the empty string, and "08" (a leading 0 makes it octal, where 8 is no
\* digit).
FieldStrings ==
    {FormatUint(n) : n \in 0..Points} \cup {<<CharX>>, << >>, <<0, 8>>}

ForeignFields ==
    UNION {[D -> FieldStrings] : D \in SUBSET {BucketFields[i] : i \in 1..3}}

\* The key holds a hash some client wrote: any of the three fields missing or
\* holding any of the strings.
InitCorrupt ==
    /\ cfg = DefaultConfig
    /\ r = NewRedisStore(cfg)
    /\ now = 0
    /\ \E k \in HotKeys, m \in ForeignFields :
         hashes = [x \in RedisKeys |->
                     IF x = r.prefix \o k THEN [f |-> m, exp |-> NoExp] ELSE NoHash]
    /\ sets = [k \in TagKeys |-> NoSet]
    /\ pc = [p \in AllProcs |-> "idle"]
    /\ loc = [p \in AllProcs |-> NoCall]
    /\ last = NoCall
    /\ rpc = [q \in Resetters |-> "idle"]
    /\ rloc = [q \in Resetters |-> NoReset]
    /\ rlast = NoResult
    /\ admitted = [k \in RedisKeys |-> 0]
    /\ batch = NoBatch
    /\ NoWeb

\* Take calls on the key, one at a time; the backing store answers every
\* round trip.
NextCorrupt ==
    \/ \E p \in Procs, k \in HotKeys : AllQuiet /\ HMGet(p, k, FALSE)
    \/ \E p \in Procs : newBucket(p)
    \/ \E p \in Procs : hset(p, "ok")
    \/ \E p \in Procs : update(p, "ok")

SpecCorrupt == InitCorrupt /\ [][NextCorrupt]_vars

\* ------------------------------------------------------------ two stores, one backing store
\* Two configurations that differ in the key prefix only.
TwoConfigs == {DefaultConfig, [DefaultConfig EXCEPT !.Prefix = OtherPrefix]}

\* The caller turns to the store built from configuration c: its next calls
\* go through that store. Both stores were built over the same client.
use(c) ==
    /\ AllQuiet
    /\ c # cfg
    /\ cfg' = c
    /\ r' = NewRedisStore(c)
    /\ last' = NoCall
    /\ rlast' = NoResult
    /\ UNCHANGED <<now, hashes, sets, pc, loc, rpc, rloc, admitted, batch, web>>

InitTwo ==
    /\ cfg \in TwoConfigs
    /\ r = NewRedisStore(cfg)
    /\ now = 0
    /\ hashes = [k \in RedisKeys |-> NoHash]
    /\ sets = [k \in TagKeys |-> NoSet]
    /\ pc = [p \in AllProcs |-> "idle"]
    /\ loc = [p \in AllProcs |-> NoCall]
    /\ last = NoCall
    /\ rpc = [q \in Resetters |-> "idle"]
    /\ rloc = [q \in Resetters |-> NoReset]
    /\ rlast = NoResult
    /\ admitted = [k \in RedisKeys |-> 0]
    /\ batch = NoBatch
    /\ NoWeb

\* Calls on one limiter key, one at a time, each through either store.
NextTwo ==
    \/ \E c \in TwoConfigs : use(c)
    \/ \E p \in SeqProcs, k \in HotKeys, fail \in BOOLEAN : AllQuiet /\ HMGet(p, k, fail)
    \/ \E p \in SeqProcs : newBucket(p)
    \/ \E p \in SeqProcs, o \in Outcomes : hset(p, o)
    \/ \E p \in SeqProcs, o \in Outcomes : update(p, o)
    \/ \E q \in Resetters, fail \in BOOLEAN : AllQuiet /\ reset(q, fail)
    \/ \E q \in Resetters, o \in Outcomes : resetExec(q, o)
    \/ Tick

SpecTwo == InitTwo /\ [][NextTwo]_vars

\* ------------------------------------------------------------ the HTTP middleware
HeaderRateLimitLimit == "X-RateLimit-Limit"
HeaderRateLimitRemaining == "X-RateLimit-Remaining"
HeaderRateLimitReset == "X-RateLimit-Reset"
HeaderRetryAfter == "Retry-After"
defaultDateFormat == "RFC1123"

StatusOK == 200
StatusTooManyRequests == 429
StatusInternalServerError == 500

\* The clock counts nanoseconds; Second is how many of them make a second.
Second == 2
\* The character between the seconds and their fraction.
CharDot == 11

\* time.Unix(0, int64(t)).UTC().Format(layout), for the layouts of DateFormats:
\* RFC1123 renders whole seconds and drops the fraction, RFC3339Nano renders
\* the fraction too, and the empty layout renders the empty string.
Format(layout, t) ==
    IF layout = "" THEN << >>
    ELSE IF layout = "RFC3339Nano"
    THEN FormatUint(t \div Second) \o <<CharDot>> \o FormatUint(t % Second)
    ELSE FormatUint(t \div Second)

DateFormats == {"", "RFC1123", "RFC3339Nano"}

\* WithDateFormat(format), WithSkipper(skipper): an option sets one field.
WithDateFormat(format) == [field |-> "dateFormat", v |-> format]
WithSkipper(skipper) == [field |-> "skipper", v |-> skipper]

RECURSIVE ApplyOptions(_, _)
\* for _, o := range opts { o(&opt) }
ApplyOptions(opt, opts) ==
    IF opts = << >> THEN opt
    ELSE ApplyOptions([opt EXCEPT ![Head(opts).field] = Head(opts).v], Tail(opts))

\* LimiterMiddleware(s, keyFunc, opts...): what the returned handler captured.
\* A skipper or a key function is "nil" or "fn".
LimiterMiddleware(s, keyFunc, opts) ==
    LET opt == ApplyOptions([dateFormat |-> defaultDateFormat, skipper |-> "nil"], opts)
    IN  [store |-> s, keyFunc |-> keyFunc, dateFormat |-> opt.dateFormat,
         skipper |-> opt.skipper]

\* A no-op store that admits nothing.
noopTakeRejects == [limit |-> 0, remaining |-> 0, resetTime |-> 0, ok |-> FALSE, err |-> ""]

\* noopStore.Take: return 0, 0, 0, true, nil.
noopTake == [limit |-> 0, remaining |-> 0, resetTime |-> 0, ok |-> TRUE, err |-> ""]

\* s.Take(ctx, key) as the middleware sees it: the no-op store's answer, or the
\* answer d a store of any other kind gives.
StoreTake(s, d) == IF s = "noop" THEN noopTake ELSE d

\* w.Header().Set(name, v)
SetHeader(h, name, v) ==
    [n \in DOMAIN h \cup {name} |-> IF n = name THEN v ELSE h[n]]

\* The bypass made after the store was asked.
bypassAfterTake(w, req) ==
    [w EXCEPT !.key = 1, !.take = 1, !.next = 1, !.status = req.handler]

\* if skipperFn() { next.ServeHTTP(w, r); return }
bypass(w, req) == [w EXCEPT !.next = 1, !.status = req.handler]

\* A failed key function answered by a Take on the empty key.
keyFailedTakes(w) ==
    [w EXCEPT !.status = StatusInternalServerError, !.key = 1, !.take = 1]

\* key, err := keyFunc(r); if err != nil { w.WriteHeader(500); return }
keyFailed(w) == [w EXCEPT !.status = StatusInternalServerError, !.key = 1]

\* The remaining header carrying the limit.
rateLimitHeadersLimitTwice(d, resetTime) ==
    SetHeader(
      SetHeader(
        SetHeader(<< >>, HeaderRateLimitLimit, FormatUint(d.limit)),
        HeaderRateLimitRemaining, FormatUint(d.limit)),
      HeaderRateLimitReset, resetTime)

\* The three w.Header().Set calls made for every decision.
rateLimitHeaders(d, resetTime) ==
    SetHeader(
      SetHeader(
        SetHeader(<< >>, HeaderRateLimitLimit, FormatUint(d.limit)),
        HeaderRateLimitRemaining, FormatUint(d.remaining)),
      HeaderRateLimitReset, resetTime)

\* The rejection without its Retry-After header.
tooManyRequestsBare(w, h, resetTime) ==
    [w EXCEPT !.headers = h, !.status = StatusTooManyRequests]

\* if !ok { w.Header().Set(HeaderRetryAfter, resetTime); w.WriteHeader(429); return }
tooManyRequests(w, h, resetTime) ==
    [w EXCEPT !.headers = SetHeader(h, HeaderRetryAfter, resetTime),
              !.status = StatusTooManyRequests]

\* The handler LimiterMiddleware returns, serving one request. req holds what
\* the request's environment does when asked: skip, what skipperFn() returns;
\* keyErr, whether keyFunc(r) returns an error; d, what the store's Take
\* returns; handler, the status the wrapped handler writes. The response
\* counts the calls made: next (the wrapped handler), take, key (keyFunc), and
\* d is what Take returned.
ServeHTTP(m, req) ==
    LET w == [NoResponse EXCEPT !.served = TRUE, !.req = req]
    IN  IF m.skipper # "nil" /\ req.skip
        THEN bypass(w, req)
        ELSE IF m.keyFunc = "nil"
        THEN [w EXCEPT !.status = StatusInternalServerError]
        ELSE IF req.keyErr
        THEN keyFailed(w)
        ELSE LET d == StoreTake(m.store, req.d)
                 resetTime == Format(m.dateFormat, d.resetTime)
                 h == rateLimitHeaders(d, resetTime)
                 t == [w EXCEPT !.key = 1, !.take = 1, !.d = d]
             IN  IF d.err # ""
                 THEN [t EXCEPT !.status = StatusInternalServerError]
                 ELSE IF ~d.ok
                 THEN tooManyRequests(t, h, resetTime)
                 ELSE [t EXCEPT !.headers = h, !.next = 1, !.status = req.handler]

\* The option lists a middleware is built with.
OptLists ==
    {<< >>,
     <<WithSkipper("fn")>>,
     <<WithDateFormat("RFC3339Nano")>>,
     <<WithDateFormat(""), WithSkipper("fn")>>,
     <<WithSkipper("fn"), WithSkipper("nil")>>,
     <<WithDateFormat(""), WithDateFormat("RFC3339Nano"), WithSkipper("fn")>>}

\* What a store's Take may answer: any decision, with or without an error.
Decisions ==
    [limit : 1..Points, remaining : 0..Points, resetTime : 0..MaxTime + 1,
     ok : BOOLEAN, err : {"", "mock error"}]

Requests ==
    [skip : BOOLEAN, keyErr : BOOLEAN, d : Decisions,
     handler : {StatusOK, StatusInternalServerError}]

\* What an ExclFunc may return for a key: (ok, limit, interval).
ExclFuncs == [ok : BOOLEAN, limit : 1..Points, interval : 1..Interval]

\* Nothing is in progress: the last response and the last result were taken.
Idle == resp = NoResponse /\ api = NoApiCall

\* The middleware serves one request.
serve(req) ==
    /\ Idle
    /\ resp' = ServeHTTP(mw, req)
    /\ UNCHANGED <<mw, api>>
    /\ UNCHANGED <<cfg, r, now, hashes, sets, pc, loc, last, rpc, rloc, rlast,
                   admitted, batch>>

\* A direct call of a Store method ends: api holds how.
apiCall(c) ==
    /\ api' = c
    /\ UNCHANGED <<mw, resp>>
    /\ UNCHANGED <<cfg, r, now, hashes, sets, pc, loc, last, rpc, rloc, rlast,
                   admitted, batch>>

\* noopStore.Take(ctx, key)
noopStoreTake(k) ==
    /\ Idle
    /\ apiCall([NoApiCall EXCEPT !.store = "noop", !.op = "Take", !.d = noopTake])

\* noopStore.Reset(ctx): return nil.
noopStoreReset ==
    /\ Idle
    /\ apiCall([NoApiCall EXCEPT !.store = "noop", !.op = "Reset"])

\* noopStore.TakeExcl(ctx, key, f): panic("implement me"); f is not called.
noopStoreTakeExcl(k, f) ==
    /\ Idle
    /\ apiCall([NoApiCall EXCEPT !.store = "noop", !.op = "TakeExcl",
                                 !.panicked = TRUE, !.excl = f.ok])

\* redisStore.TakeExcl(ctx, key, f): panic("implement me"); f is not called and
\* the backing store is not touched.
TakeExcl(k, f) ==
    /\ Idle
    /\ apiCall([NoApiCall EXCEPT !.store = "redis", !.op = "TakeExcl",
                                 !.panicked = TRUE, !.excl = f.ok])

\* The caller takes the response or the result; the next call can be made.
taken ==
    /\ ~Idle
    /\ resp' = NoResponse
    /\ api' = NoApiCall
    /\ UNCHANGED mw
    /\ UNCHANGED <<cfg, r, now, hashes, sets, pc, loc, last, rpc, rloc, rlast,
                   admitted, batch>>

\* A middleware over a store of some kind, with or without a key function,
\* built with any of the option lists; the redis store beside it is built.
InitWeb ==
    /\ cfg = DefaultConfig
    /\ r = NewRedisStore(cfg)
    /\ now = 0
    /\ hashes = [k \in RedisKeys |-> NoHash]
    /\ sets = [k \in TagKeys |-> NoSet]
    /\ pc = [p \in AllProcs |-> "idle"]
    /\ loc = [p \in AllProcs |-> NoCall]
    /\ last = NoCall
    /\ rpc = [q \in Resetters |-> "idle"]
    /\ rloc = [q \in Resetters |-> NoReset]
    /\ rlast = NoResult
    /\ admitted = [k \in RedisKeys |-> 0]
    /\ batch = NoBatch
    /\ \E s \in {"mock", "noop"}, keyFunc \in {"nil", "fn"}, opts \in OptLists :
         mw = LimiterMiddleware(s, keyFunc, opts)
    /\ resp = NoResponse
    /\ api = NoApiCall

NextWeb ==
    \/ \E req \in Requests : serve(req)
    \/ \E k \in Keys : noopStoreTake(k)
    \/ noopStoreReset
    \/ \E k \in Keys, f \in ExclFuncs : noopStoreTakeExcl(k, f)
    \/ \E k \in Keys, f \in ExclFuncs : TakeExcl(k, f)
    \/ taken

SpecWeb == InitWeb /\ [][NextWeb]_vars

\* ------------------------------------------------------------ properties
\* What a hash holds as its count of permits, and as its limit (the store's
\* maxPoints for a hash that has no max_points field).
Remaining(h) == ParseUint(h.f[redisActualPointsFieldName]).val
Limit(h) ==
    IF redisMaxPointsFieldName \in DOMAIN h.f
    THEN ParseUint(h.f[redisMaxPointsFieldName]).val ELSE r.maxPoints
Returned == last.path # "none"

\* C1: for every key, the Take calls that returned admitted = true since the
\* key's bucket was created are at most the configured limit (Points).
C1_AtMostLimitAdmitted ==
    \A k \in RedisKeys : admitted[k] <= cfg.Points

\* C2: a Take that finds no bucket under its key and whose round trips succeed
\* returns (Points, Points, t + Interval, true, nil), t being the time newBucket
\* read, and leaves a bucket whose max_points and actual_points are Points,
\* whose reset_time is that resetTime and which expires Interval from now.
C2_FirstTake ==
    (Returned /\ last.path = "create" /\ ~last.failed) =>
        LET h == hashes[last.key]
        IN  /\ last.err = "" /\ last.ok
            /\ last.limit = cfg.Points /\ last.remaining = last.limit
            /\ last.resetTime = last.at + cfg.Interval
            /\ DOMAIN h.f = {BucketFields[i] : i \in 1..3}
            /\ ParseUint(h.f[redisMaxPointsFieldName]) = [val |-> cfg.Points, err |-> FALSE]
            /\ ParseUint(h.f[redisActualPointsFieldName]) = [val |-> cfg.Points, err |-> FALSE]
            /\ ParseUint(h.f[redisResetTimeFieldName]) = [val |-> last.resetTime, err |-> FALSE]
            /\ h.exp = now + cfg.Interval

\* A bucket created some time after the store was built, by a call that read
\* the clock before the tick its batch ran in.
C2_Witness ==
    /\ Returned /\ last.path = "create" /\ last.ok
    /\ last.at < now

\* C3: in a run of one call at a time, a Take that returns while the key's
\* bucket is there and limit calls on it were admitted returns admitted = false
\* and remaining = 0 and leaves the backing store as it was.
C3_RejectedAfterLimit ==
    [][(/\ last'.path # "none" /\ last'.err = ""
        /\ HashExists(hashes[last'.key])
        /\ admitted[last'.key] >= cfg.Points)
       => (/\ ~last'.ok /\ last'.remaining = 0
           /\ ~last'.wrote /\ hashes' = hashes /\ sets' = sets)]_vars

\* C5: a Take that returns without error returns admitted = true exactly when
\* the count stored under its key is then one less than the permits it found
\* (the configured limit when it found no bucket).
C5_AdmittedIffConsumed ==
    (Returned /\ last.err = "") =>
        LET h == hashes[last.key]
        IN  last.ok <=> (/\ redisActualPointsFieldName \in DOMAIN h.f
                         /\ Remaining(h) = last.pre - 1)

\* C6: every stored bucket holds a count that is an unsigned integer between 0
\* and its limit, and so does every decision Take returns without error.
C6_RemainingWithinLimit ==
    /\ \A k \in RedisKeys :
         HashExists(hashes[k]) =>
            /\ redisActualPointsFieldName \in DOMAIN hashes[k].f
            /\ ~ParseUint(hashes[k].f[redisActualPointsFieldName]).err
            /\ 0 <= Remaining(hashes[k])
            /\ Remaining(hashes[k]) <= Limit(hashes[k])
    /\ (Returned /\ last.err = "") =>
            (0 <= last.remaining /\ last.remaining <= last.limit)

\* A call was rejected, without error, on a live bucket that holds no permit,
\* at a time later than 0.
C6_Witness ==
    /\ Returned /\ last.err = "" /\ ~last.ok
    /\ HashExists(hashes[last.key]) /\ Remaining(hashes[last.key]) = 0
    /\ now > 0

\* C7: the count stored under a key never increases from one state to the
\* next while the key's bucket is there in both.
C7_RemainingNeverIncreases ==
    [][\A k \in RedisKeys :
         (HashExists(hashes[k]) /\ HashExists(hashes'[k]))
            => Remaining(hashes'[k]) <= Remaining(hashes[k])]_vars

\* C8: when a Reset of a store that holds a tag has returned nil, no bucket and
\* no tag set is left in the backing store.
C8_ResetClearsAll ==
    (rlast.returned /\ rlast.err = "" /\ Len(r.tags) >= 1) =>
        /\ \A k \in RedisKeys : ~HashExists(hashes[k])
        /\ \A t \in TagKeys : ~SetExists(sets[t])

\* C9: a Reset of a store configured with zero tags returns an error and leaves
\* every bucket and every tag set as it was.
C9_ResetFailsWithoutTags ==
    [][(rlast'.returned /\ Len(cfg.Tags) = 0)
       => (rlast'.err # "" /\ hashes' = hashes /\ sets' = sets)]_vars

\* What the batch of a Reset that is at its second round trip removes: the
\* members it read from the first tag set, which are not none, and every tag
\* set of the store.
ResetBatchRan ==
    /\ \A q \in Resetters : rpc[q] = "exec" =>
          /\ rloc[q].keys # {}
          /\ \A k \in rloc[q].keys \cap RedisKeys : ~HashExists(hashes'[k])
    /\ \A t \in TagKeys : ~SetExists(sets'[t])

\* C9 as amended: a store configured with zero tags holds the default tag, so
\* its Reset never returns the "tags not set" error. When it returns nil, the
\* members it read from the default tag set and every tag set of the store are
\* gone. When it returns an error, either every bucket and every tag set is as
\* it was (a round trip did not reach the backing store, or the backing store
\* refused the batch), or the whole batch ran and only its reply was lost.
C9_ResetWithDefaultTag ==
    [][(rlast'.returned /\ Len(cfg.Tags) = 0) =>
         /\ r.tags = <<defaultRedisTagPrefix \o defaultRedisTag>>
         /\ rlast'.err # "tags not set"
         /\ (rlast'.err # "" /\ ~rlast'.failed) => (hashes' = hashes /\ sets' = sets)
         /\ (rlast'.err # "" /\ rlast'.failed) =>
               ((hashes' = hashes /\ sets' = sets) \/ ResetBatchRan)
         /\ rlast'.err = "" => ResetBatchRan]_vars

\* A Reset of the store configured with zero tags returned nil, later than
\* time 0, and no bucket is left.
C9_Witness ==
    /\ rlast.returned /\ rlast.err = "" /\ Len(cfg.Tags) = 0
    /\ \A k \in RedisKeys : ~HashExists(hashes[k])
    /\ now > 0

\* C4: when every caller of a batch of N concurrent Take calls on a bucket that
\* held R < N permits has returned, exactly R of the calls were admitted (and
\* the other N - R rejected: no call of the batch fails).
C4_ExactlyRAdmitted ==
    (/\ batch.called = BatchProcs
     /\ \A p \in BatchProcs : pc[p] = "idle"
     /\ batch.start < Cardinality(BatchProcs))
    => admitted[r.prefix \o batch.key] = batch.start

\* C10: a Take that read a bucket with a missing or unparsable field returns an
\* error with admitted = false and has written nothing to the backing store.
C10_CorruptBucketIsError ==
    (Returned /\ last.corrupt) =>
        (last.err # "" /\ ~last.ok /\ ~last.wrote /\ last.path = "read")

\* C11: a Take of which a round trip failed returns an error with limit,
\* remaining and resetTime 0 and admitted = false, and the step that ends it
\* leaves every bucket and every tag set as it was (a call writes in its last
\* round trip only, so the call has then changed nothing).
C11_FailedTakeChangesNothing ==
    [][(last'.path # "none" /\ last'.failed) =>
         /\ last'.err # "" /\ ~last'.ok
         /\ last'.limit = 0 /\ last'.remaining = 0 /\ last'.resetTime = 0
         /\ ~last'.wrote
         /\ hashes' = hashes /\ sets' = sets]_vars

\* The bucket keys of the store st: its prefix before a limiter key.
OwnKeys(st) == {st.prefix \o k : k \in Keys}

\* C12: no step of a Take or a Reset made through a store changes a bucket
\* whose key carries the prefix of the other store (the steps of the clock,
\* which expire buckets, are no step of a call).
C12_OtherPrefixUntouched ==
    [][(now' = now /\ r' = r) =>
          \A k \in RedisKeys \ OwnKeys(r) : hashes'[k] = hashes[k]]_vars

\* The request was not bypassed: no skipper is set, or it returned false.
NoSkip == mw.skipper = "nil" \/ ~resp.req.skip

RateLimitHeaderNames ==
    {HeaderRateLimitLimit, HeaderRateLimitRemaining, HeaderRateLimitReset}

\* The three X-RateLimit-* headers of the response say what Take returned: the
\* limit and the remaining count in decimal, the reset time in the date format.
HeadersSayDecision ==
    /\ RateLimitHeaderNames \subseteq DOMAIN resp.headers
    /\ ParseUint(resp.headers[HeaderRateLimitLimit]) = [val |-> resp.d.limit, err |-> FALSE]
    /\ ParseUint(resp.headers[HeaderRateLimitRemaining]) =
          [val |-> resp.d.remaining, err |-> FALSE]
    /\ resp.headers[HeaderRateLimitReset] = Format(mw.dateFormat, resp.d.resetTime)

\* C13: a request that is not bypassed, whose key function succeeds and whose
\* Take returns admitted = true and no error, gets the three X-RateLimit-*
\* headers from the decision and no Retry-After header, and the wrapped handler
\* is called once: the status is the one the handler writes.
C13_AdmittedIsDelegated ==
    (resp.served /\ NoSkip /\ resp.take = 1 /\ resp.d.err = "" /\ resp.d.ok) =>
        /\ HeadersSayDecision
        /\ DOMAIN resp.headers = RateLimitHeaderNames
        /\ resp.next = 1
        /\ resp.status = resp.req.handler

\* An admitted request with remaining below the limit was delegated to a
\* handler that wrote 200.
C13_Witness ==
    /\ resp.served /\ NoSkip /\ resp.take = 1 /\ resp.d.err = "" /\ resp.d.ok
    /\ resp.d.remaining < resp.d.limit /\ resp.d.resetTime > 0
    /\ resp.status = StatusOK /\ mw.store = "mock"

\* C14: a request that is not bypassed and whose Take returns admitted = false
\* and no error gets status 429, the three X-RateLimit-* headers from the
\* decision and a Retry-After header equal to X-RateLimit-Reset, and the
\* wrapped handler is not called.
C14_RejectedIs429 ==
    (resp.served /\ NoSkip /\ resp.take = 1 /\ resp.d.err = "" /\ ~resp.d.ok) =>
        /\ resp.status = StatusTooManyRequests
        /\ HeadersSayDecision
        /\ DOMAIN resp.headers = RateLimitHeaderNames \cup {HeaderRetryAfter}
        /\ resp.headers[HeaderRetryAfter] = resp.headers[HeaderRateLimitReset]
        /\ resp.next = 0

\* A rejected request got a Retry-After that is not the empty string.
C14_Witness ==
    /\ resp.served /\ NoSkip /\ resp.take = 1 /\ resp.d.err = "" /\ ~resp.d.ok
    /\ resp.d.remaining = 0 /\ resp.d.resetTime > 0
    /\ HeaderRetryAfter \in DOMAIN resp.headers
    /\ resp.headers[HeaderRetryAfter] # << >>

\* C15: a request that is not bypassed gets status 500, no X-RateLimit-* and
\* no Retry-After header, and is not delegated when the key function is nil,
\* the key function fails or Take returns an error; in the first two cases
\* Take is not called.
C15_FailureIs500 ==
    (resp.served /\ NoSkip) =>
        /\ (mw.keyFunc = "nil" \/ (resp.key = 1 /\ resp.req.keyErr)) =>
              /\ resp.status = StatusInternalServerError
              /\ DOMAIN resp.headers = {}
              /\ resp.next = 0
              /\ resp.take = 0
        /\ (resp.take = 1 /\ resp.d.err # "") =>
              /\ resp.status = StatusInternalServerError
              /\ DOMAIN resp.headers = {}
              /\ resp.next = 0

\* A key function failed for a request that a skipper let through.
C15_Witness ==
    /\ resp.served /\ mw.skipper # "nil" /\ ~resp.req.skip
    /\ resp.key = 1 /\ resp.req.keyErr
    /\ resp.status = StatusInternalServerError

\* C16: a request for which the skipper returns true is delegated, once,
\* without a call of the key function or of Take and without a header set by
\* the middleware, also when the key function is nil or would fail.
C16_SkippedIsDelegated ==
    (resp.served /\ mw.skipper # "nil" /\ resp.req.skip) =>
        /\ resp.next = 1
        /\ resp.status = resp.req.handler
        /\ resp.take = 0
        /\ resp.key = 0
        /\ DOMAIN resp.headers = {}

\* A request was bypassed although the key function is nil.
C16_Witness ==
    /\ resp.served /\ mw.skipper # "nil" /\ resp.req.skip
    /\ mw.keyFunc = "nil" /\ resp.next = 1

\* C17: a TakeExcl call returns a decision or an error.
C17_TakeExclReturns == api.op = "TakeExcl" => ~api.panicked

\* What every direct call of the no-op store returns: Take (0, 0, 0, true,
\* nil), Reset nil.
NoopAdmits ==
    (api.store = "noop" /\ api.op \in {"Take", "Reset"}) =>
        /\ ~api.panicked
        /\ api.d.err = ""
        /\ api.op = "Take" =>
              (api.d.ok /\ api.d.limit = 0 /\ api.d.remaining = 0 /\ api.d.resetTime = 0)

\* C18: the no-op store's Take returns (0, 0, 0, true, nil) and its Reset nil,
\* and the middleware over a no-op store delegates every request.
C18_NoopDelegatesAll ==
    /\ NoopAdmits
    /\ (resp.served /\ mw.store = "noop") => resp.next = 1

\* C18 as amended: the no-op store's Take returns (0, 0, 0, true, nil) and its
\* Reset nil, and the middleware over a no-op store delegates exactly the
\* requests that are bypassed or whose key function is set and succeeds; the
\* others get status 500.
C18_NoopDelegatesKeyed ==
    /\ NoopAdmits
    /\ (resp.served /\ mw.store = "noop") =>
          /\ resp.next = 1 <=> (~NoSkip \/ (mw.keyFunc # "nil" /\ ~resp.req.keyErr))
          /\ resp.next = 0 => resp.status = StatusInternalServerError
          /\ resp.take = 1 => resp.d = [limit |-> 0, remaining |-> 0, resetTime |-> 0,
                                        ok |-> TRUE, err |-> ""]

\* The middleware over a no-op store delegated a request after a Take.
C18_Witness ==
    /\ resp.served /\ mw.store = "noop" /\ resp.take = 1 /\ resp.next = 1
    /\ resp.req.d.ok = FALSE

\* C19: a Take that found a bucket with remaining > 0 and returned without
\* error returns (limit, remaining - 1, resetTime, true), and when it has
\* returned the bucket holds remaining - 1 with the limit and the reset time
\* the call read and the expiry it had, while every tag set and every other
\* bucket is as before the write.
C19_DecrementOnly ==
    [][(last'.path = "dec" /\ last'.err = "") =>
         LET k == last'.key
         IN  /\ last'.ok /\ last'.pre > 0 /\ last'.remaining = last'.pre - 1
             /\ DOMAIN hashes'[k].f = {BucketFields[i] : i \in 1..3}
             /\ Remaining(hashes'[k]) = last'.pre - 1
             /\ ParseUint(hashes'[k].f[redisMaxPointsFieldName]).val = last'.limit
             /\ ParseUint(hashes'[k].f[redisResetTimeFieldName]).val = last'.resetTime
             /\ hashes[k].exp # NoExp
             /\ hashes'[k].exp = hashes[k].exp
             /\ sets' = sets
             /\ \A j \in RedisKeys \ {k} : hashes'[j] = hashes[j]]_vars

\* C20: the step in which a creating Take ends either leaves every bucket and
\* every tag set as it was, or leaves the key's bucket with its three fields
\* and an expiry of Interval from now, and the key a member of every tag set of
\* the store, each with an expiry of Interval from now: there is no state in
\* which a part of the batch is written.
C20_CreationAllOrNothing ==
    [][\A p \in AllProcs : (pc[p] = "hset" /\ pc'[p] = "idle") =>
          LET k == loc[p].key
              h == hashes'[k]
          IN  \/ hashes' = hashes /\ sets' = sets
              \/ /\ DOMAIN h.f = {BucketFields[i] : i \in 1..3}
                 /\ ParseUint(h.f[redisMaxPointsFieldName]).val = cfg.Points
                 /\ ParseUint(h.f[redisActualPointsFieldName]).val = cfg.Points
                 /\ ParseUint(h.f[redisResetTimeFieldName]).val = loc[p].resetTime
                 /\ h.exp = now + cfg.Interval
                 /\ \A i \in 1..Len(r.tags) :
                       /\ k \in sets'[r.tags[i]].members
                       /\ sets'[r.tags[i]].exp = now + cfg.Interval
                 /\ \A j \in RedisKeys \ {k} : hashes'[j] = hashes[j]]_vars

\* A creating Take wrote its bucket later than time 0, and the bucket is in
\* the tag set, whose expiry is the bucket's.
C20_Witness ==
    /\ Returned /\ last.path = "create" /\ last.wrote /\ now > 0
    /\ \A i \in 1..Len(r.tags) :
          /\ last.key \in sets[r.tags[i]].members
          /\ sets[r.tags[i]].exp = hashes[last.key].exp
    /\ hashes[last.key].exp = now + cfg.Interval

\* C21: the store is built for every tag list, and holds one tag-set name per
\* configured tag, tagPrefix followed by the tag, in the configured order, or
\* the one name tagPrefix followed by the default tag when no tag is configured.
C21_TagsAsConfigured ==
    /\ ~r.panicked
    /\ r.tags = IF Len(cfg.Tags) = 0
                THEN <<r.tagPrefix \o defaultRedisTag>>
                ELSE [i \in 1..Len(cfg.Tags) |-> r.tagPrefix \o cfg.Tags[i]]

\* C22: when a Reset has returned nil, every bucket that is in the backing
\* store is a member of the primary tag set, whatever Take calls ran
\* concurrently with the Reset.
C22_ResetLeavesNoUntracked ==
    (rlast.returned /\ rlast.err = "") =>
        \A k \in RedisKeys :
            HashExists(hashes[k]) => k \in sets[r.tags[1]].members

\* C23: with no Reset, each tag set of the store is there as long as any entry
\* under a bucket key is there, and it expires no later than the last-expiring
\* of those entries.
C23_TagSetLivesWithBuckets ==
    ~r.panicked =>
        \A i \in 1..Len(r.tags) :
            LET live == {k \in RedisKeys : HashExists(hashes[k])}
                st == sets[r.tags[i]]
            IN  /\ live # {} => SetExists(st)
                /\ SetExists(st) =>
                      /\ st.exp # NoExp
                      /\ \E k \in live : \/ hashes[k].exp = NoExp
                                         \/ hashes[k].exp >= st.exp

\* C24: every entry under a bucket key has the three bucket fields and an
\* expiry, whatever the interleaving of Take, Reset and the clock.
C24_BucketsWellFormed ==
    \A k \in RedisKeys :
        HashExists(hashes[k]) =>
            /\ DOMAIN hashes[k].f = {BucketFields[i] : i \in 1..3}
            /\ hashes[k].exp # NoExp

====
